---------------------------- MODULE Spec2Model ----------------------------
(***************************************************************************)
(* A model of the e-commerce assistant's recommendation pipeline:          *)
(*   - PriceComparisonAgent: the in-memory price history, its trend        *)
(*     calculator and the per-retailer aggregation (execute);              *)
(*   - RecommendationEngineAgent: the scoring function and the ranking;    *)
(*   - WorkflowManager: execute_workflow, stage by stage.                  *)
(*                                                                         *)
(* Conventions.  Money is in whole currency units, so round(x, 2) is the   *)
(* identity on it.  Time is in days.  Python's None is the value None.     *)
(* Scores are fixed-point numbers, SCALE units to 1.0; the input sets are  *)
(* chosen so that every division of the scoring function is exact.        *)
(***************************************************************************)
EXTENDS Integers, Sequences, FiniteSets, TLC

VARIABLES
    price_history,  \* PriceComparisonAgent.price_history: product_name -> list of entries
    now,            \* the wall clock read by datetime.now(), in days
    tasks,          \* the aggregation coroutines in flight on the event loop
    call,           \* the arguments of the call under study
    last_result,    \* what that call returned to its caller
    pc,             \* where the coroutine of execute_workflow stands
    workflow_result,\* execute_workflow: the workflow_result dictionary
    locals,         \* execute_workflow: its local variables
    log             \* the stages announced on WorkflowManager.logger

vars == <<price_history, now, tasks, call, last_result,
          pc, workflow_result, locals, log>>

workflow_vars == <<pc, workflow_result, locals, log>>

\* No run of execute_workflow has started.
NoWorkflow ==
    /\ pc = "idle"
    /\ workflow_result = <<>>
    /\ locals = <<>>
    /\ log = <<>>

None == 0 - 1

(***************************************************************************)
(* Bounds of the model.                                                    *)
(***************************************************************************)
MaxProducts == 2   \* products handed to one aggregation
MaxHist == 2       \* entries one product's history list may hold
MaxTicks == 3      \* times the clock advances
MaxTrendLen == 3   \* entries of a history list handed to the trend calculator

(***************************************************************************)
(* Program constants.                                                      *)
(***************************************************************************)
RetentionDays == 30
TrendThreshold == 5

\* The clock advances by half a retention window at a time.
TickDays == RetentionDays \div 2

Retailers == {"Amazon", "eBay", "Walmart"}
ProductNames == {"laptop", "phone"}

\* Product records as the search adapters build them.  rating is in tenths
\* of a star; the eBay adapter sets rating and review_count to None.
Prod(id, ret, total, rating, rc) ==
    [product_id |-> id, retailer |-> ret, total_price |-> total,
     rating |-> rating, review_count |-> rc]

Catalogue ==
    { Prod("A1", "Amazon", 20, 46, 99),
      Prod("A2", "Amazon", 21, 40, 999),
      Prod("A3", "Amazon", 19, 35, 0),
      Prod("E1", "eBay", 0, None, None) }

RECURSIVE SeqsUpTo(_, _)
SeqsUpTo(S, n) ==
    IF n = 0 THEN {<<>>}
    ELSE LET shorter == SeqsUpTo(S, n - 1)
         IN  shorter \cup
             { Append(s, x) : s \in {t \in shorter : Len(t) = n - 1},
                              x \in S }

Range(s) == {s[i] : i \in 1..Len(s)}

\* Lists of distinct products, as a search returns them.
DistinctLists(S) ==
    {s \in SeqsUpTo(S, MaxProducts) : Cardinality(Range(s)) = Len(s)}

ProductLists == DistinctLists(Catalogue)

\* The products the aggregations running against one store are handed.
StoreProductLists ==
    DistinctLists({p \in Catalogue : p.product_id \in {"A1", "A2"}})

\* What the secondary sources (Google Shopping, then PriceAPI) return: a
\* failed, unconfigured or empty source returns the empty list.
WalmartQuote ==
    [retailer |-> "Walmart", total_cost |-> 22, product_id |-> "",
     rating |-> None, review_count |-> None]

ExternalQuoteLists == {<<>>, <<WalmartQuote>>}

(***************************************************************************)
(* PriceComparisonAgent._get_prices_from_product_search                    *)
(***************************************************************************)
QuoteOfProduct(p) ==
    [retailer |-> p.retailer, total_cost |-> p.total_price,
     product_id |-> p.product_id, rating |-> p.rating,
     review_count |-> p.review_count]

GetPricesFromProductSearch(products) ==
    [i \in 1..Len(products) |-> QuoteOfProduct(products[i])]

(***************************************************************************)
(* PriceComparisonAgent._update_price_history                              *)
(***************************************************************************)
HistoryOf(hist, name) == IF name \in DOMAIN hist THEN hist[name] ELSE <<>>

InWindow(entry, t) == entry.timestamp > t - RetentionDays

HistoryEntry(q, t) ==
    [retailer |-> q.retailer, total_cost |-> q.total_cost, timestamp |-> t]

\* One iteration of the loop: append the entry, then prune the list of
\* this product_name.
RecordOneNoPrune(list, q, t) == Append(list, HistoryEntry(q, t))

RecordOne(list, q, t) ==
    SelectSeq(Append(list, HistoryEntry(q, t)), LAMBDA e : InWindow(e, t))

RECURSIVE RecordAll(_, _, _)
RecordAll(list, prices, t) ==
    IF prices = <<>> THEN list
    ELSE RecordAll(RecordOne(list, Head(prices), t), Tail(prices), t)

UpdatePriceHistoryLost(hist, name, prices, t) ==
    (name :> RecordAll(<<>>, prices, t)) @@ hist

UpdatePriceHistory(hist, name, prices, t) ==
    (name :> RecordAll(HistoryOf(hist, name), prices, t)) @@ hist

(***************************************************************************)
(* PriceComparisonAgent._calculate_price_trend                             *)
(***************************************************************************)
\* sorted(retailer_history, key=timestamp): a stable insertion sort.
RECURSIVE InsertByTimestamp(_, _)
InsertByTimestamp(sorted, e) ==
    IF sorted = <<>> THEN <<e>>
    ELSE IF sorted[Len(sorted)].timestamp <= e.timestamp
         THEN Append(sorted, e)
         ELSE Append(InsertByTimestamp(SubSeq(sorted, 1, Len(sorted) - 1), e),
                     sorted[Len(sorted)])

RECURSIVE SortByTimestamp(_)
SortByTimestamp(s) ==
    IF s = <<>> THEN <<>>
    ELSE InsertByTimestamp(SortByTimestamp(SubSeq(s, 1, Len(s) - 1)), s[Len(s)])

\* round(a / b, 0) for b > 0, halves rounded up.
RoundDiv(a, b) == (2 * a + b) \div (2 * b)

ClassifyTrendInclusive(oldest, newest) ==
    LET num == IF oldest > 0 THEN (newest - oldest) * 100 ELSE 0
        den == IF oldest > 0 THEN oldest ELSE 1
    IN  IF num >= TrendThreshold * den THEN "increasing"
        ELSE IF num <= (0 - TrendThreshold) * den THEN "decreasing"
        ELSE "stable"

\* change_percent is the rational num / den; the comparison with 5 is exact.
ClassifyTrend(oldest, newest) ==
    LET num == IF oldest > 0 THEN (newest - oldest) * 100 ELSE 0
        den == IF oldest > 0 THEN oldest ELSE 1
    IN  IF num > TrendThreshold * den THEN "increasing"
        ELSE IF num < (0 - TrendThreshold) * den THEN "decreasing"
        ELSE "stable"

\* change_percent as reported: round(change_percent, 2), in hundredths of a
\* percent.
ChangePercent(oldest, newest) ==
    IF oldest > 0 THEN RoundDiv((newest - oldest) * 10000, oldest) ELSE 0

RetailerHistory(hist, name, retailer) ==
    SelectSeq(HistoryOf(hist, name), LAMBDA e : e.retailer = retailer)

\* The same with the series compared to 1 in place of 2.
CalculatePriceTrendFromOne(hist, name, retailer) ==
    IF name \notin DOMAIN hist
    THEN [trend |-> "no_data", change_percent |-> 0]
    ELSE LET retailer_history == RetailerHistory(hist, name, retailer)
         IN  IF Len(retailer_history) < 1
             THEN [trend |-> "insufficient_data", change_percent |-> 0]
             ELSE LET sorted_history == SortByTimestamp(retailer_history)
                      oldest_price == sorted_history[1].total_cost
                      newest_price ==
                          sorted_history[Len(sorted_history)].total_cost
                  IN  [trend |-> ClassifyTrend(oldest_price, newest_price),
                       change_percent |->
                           ChangePercent(oldest_price, newest_price),
                       oldest_price |-> oldest_price,
                       newest_price |-> newest_price,
                       data_points |-> Len(retailer_history)]

CalculatePriceTrend(hist, name, retailer) ==
    IF name \notin DOMAIN hist
    THEN [trend |-> "no_data", change_percent |-> 0]
    ELSE LET retailer_history == RetailerHistory(hist, name, retailer)
         IN  IF Len(retailer_history) < 2
             THEN [trend |-> "insufficient_data", change_percent |-> 0]
             ELSE LET sorted_history == SortByTimestamp(retailer_history)
                      oldest_price == sorted_history[1].total_cost
                      newest_price ==
                          sorted_history[Len(sorted_history)].total_cost
                  IN  [trend |-> ClassifyTrend(oldest_price, newest_price),
                       change_percent |->
                           ChangePercent(oldest_price, newest_price),
                       oldest_price |-> oldest_price,
                       newest_price |-> newest_price,
                       data_points |-> Len(retailer_history)]

(***************************************************************************)
(* PriceComparisonAgent.execute                                            *)
(***************************************************************************)
\* The keys of retailer_prices in insertion order: each retailer at its
\* first quote.
RECURSIVE RetailerOrder(_)
RetailerOrder(prices) ==
    IF prices = <<>> THEN <<>>
    ELSE LET front == RetailerOrder(SubSeq(prices, 1, Len(prices) - 1))
             r == prices[Len(prices)].retailer
         IN  IF \E i \in 1..Len(front) : front[i] = r
             THEN front ELSE Append(front, r)

\* The first element, whatever its cost.
FirstQuote(s) == s[1]

\* min(seq, key=total_cost) and max(seq, key=total_cost): the first of the
\* extreme elements.
MinByTotalCost(s) ==
    s[CHOOSE i \in 1..Len(s) :
        /\ \A j \in 1..Len(s) : s[i].total_cost <= s[j].total_cost
        /\ \A j \in 1..(i - 1) : s[j].total_cost > s[i].total_cost]

MaxByTotalCost(s) ==
    s[CHOOSE i \in 1..Len(s) :
        /\ \A j \in 1..Len(s) : s[i].total_cost >= s[j].total_cost
        /\ \A j \in 1..(i - 1) : s[j].total_cost < s[i].total_cost]

QuotesOfRetailer(prices, r) == SelectSeq(prices, LAMBDA q : q.retailer = r)

Comparison(hist, name, prices, r, include_history) ==
    LET options == QuotesOfRetailer(prices, r)
        best_price == MinByTotalCost(options)
        base == [retailer |-> r, total_cost |-> best_price.total_cost,
                 product_id |-> best_price.product_id,
                 rating |-> best_price.rating,
                 review_count |-> best_price.review_count,
                 options_count |-> Len(options)]
    IN  IF include_history
        THEN [retailer |-> r, total_cost |-> best_price.total_cost,
              product_id |-> best_price.product_id,
              rating |-> best_price.rating,
              review_count |-> best_price.review_count,
              options_count |-> Len(options),
              price_trend |-> CalculatePriceTrend(hist, name, r)]
        ELSE base

Comparisons(hist, name, prices, include_history) ==
    LET order == RetailerOrder(prices)
    IN  [i \in 1..Len(order) |->
            Comparison(hist, name, prices, order[i], include_history)]

\* The same with the first comparison taken for the best deal.
BestDealFirst(comparisons) ==
    LET best_deal == comparisons[1]
        highest_price == MaxByTotalCost(comparisons)
        savings == highest_price.total_cost - best_deal.total_cost
    IN  [retailer |-> best_deal.retailer,
         total_cost |-> best_deal.total_cost,
         savings |-> savings,
         savings_percent |->
             IF highest_price.total_cost > 0
             THEN RoundDiv(savings * 10000, highest_price.total_cost)
             ELSE 0]

\* savings_percent, in hundredths of a percent.
BestDeal(comparisons) ==
    LET best_deal == MinByTotalCost(comparisons)
        highest_price == MaxByTotalCost(comparisons)
        savings == highest_price.total_cost - best_deal.total_cost
    IN  [retailer |-> best_deal.retailer,
         total_cost |-> best_deal.total_cost,
         savings |-> savings,
         savings_percent |->
             IF highest_price.total_cost > 0
             THEN RoundDiv(savings * 10000, highest_price.total_cost)
             ELSE 0]

FailedComparisonAsSuccess(error) ==
    [success |-> TRUE, error |-> error, comparisons |-> <<>>]

FailedComparison(error) ==
    [success |-> FALSE, error |-> error, comparisons |-> <<>>]

\* The quotes the update of the history is fed with: all of them.
RecordedPrices(all_prices) == all_prices

\* The same with the history updated before the quotes are tested for
\* emptiness.
ComparisonExecuteRecordsFirst(hist, t, has_name, name, products, ext, incl, fault) ==
    IF ~has_name
    THEN [result |-> FailedComparison("Missing required field: product_name"),
          hist |-> hist]
    ELSE IF fault
    THEN [result |-> FailedComparison("exception"), hist |-> hist]
    ELSE LET all_prices == GetPricesFromProductSearch(products) \o ext
             updated == UpdatePriceHistory(
                            hist, name, RecordedPrices(all_prices), t)
         IN  IF all_prices = <<>>
             THEN [result |-> FailedComparison("No price data available"),
                   hist |-> updated]
             ELSE LET comparisons == Comparisons(updated, name, all_prices,
                                                 incl)
                  IN  [result |->
                          [success |-> TRUE, product_name |-> name,
                           comparisons |-> comparisons,
                           best_deal |-> BestDeal(comparisons),
                           total_retailers |-> Len(comparisons)],
                       hist |-> updated]

\* execute, as the pair of its result and the history it leaves.  has_name
\* says whether the query holds "product_name"; ext is what the secondary
\* sources returned; incl is include_history; fault says that a statement
\* of the try block raised while the quotes were being collected.
ComparisonExecute(hist, t, has_name, name, products, ext, incl, fault) ==
    IF ~has_name
    THEN [result |-> FailedComparison("Missing required field: product_name"),
          hist |-> hist]
    ELSE IF fault
    THEN [result |-> FailedComparison("exception"), hist |-> hist]
    ELSE LET all_prices == GetPricesFromProductSearch(products) \o ext
         IN  IF all_prices = <<>>
             THEN [result |-> FailedComparison("No price data available"),
                   hist |-> hist]
             ELSE LET updated == UpdatePriceHistory(
                                     hist, name, RecordedPrices(all_prices), t)
                      comparisons == Comparisons(updated, name, all_prices,
                                                 incl)
                  IN  [result |->
                          [success |-> TRUE, product_name |-> name,
                           comparisons |-> comparisons,
                           best_deal |-> BestDeal(comparisons),
                           total_retailers |-> Len(comparisons)],
                       hist |-> updated]

(***************************************************************************)
(* The store under concurrent aggregations: each task is one call of       *)
(* execute running as a coroutine on the single event loop.  A coroutine   *)
(* is suspended only at an await of network I/O: in execute, the calls of  *)
(* the secondary sources.  What follows the last await (the update of the  *)
(* history, the grouping, the trends) runs without suspension.             *)
(***************************************************************************)
TaskIds == {1, 2}

IdleTask == [pc |-> "idle"]

Begin(k) ==
    /\ tasks[k].pc = "idle"
    /\ \E name \in ProductNames :
          tasks' = [tasks EXCEPT ![k] =
                       [pc |-> "fetching", product_name |-> name]]
    /\ UNCHANGED <<price_history, now, call, last_result, workflow_vars>>

Complete(k) ==
    /\ tasks[k].pc = "fetching"
    /\ \E products \in StoreProductLists, fault \in BOOLEAN :
          \E out \in {ComparisonExecute(price_history, now, TRUE,
                                        tasks[k].product_name, products,
                                        <<>>, FALSE, fault)} :
              /\ Len(HistoryOf(out.hist, tasks[k].product_name)) <= MaxHist
              /\ price_history' = out.hist
    /\ tasks' = [tasks EXCEPT ![k] = IdleTask]
    /\ UNCHANGED <<now, call, last_result, workflow_vars>>

Tick ==
    /\ now < MaxTicks * TickDays
    /\ now' = now + TickDays
    /\ UNCHANGED <<price_history, tasks, call, last_result, workflow_vars>>

HistoryInit ==
    /\ price_history = <<>>
    /\ now = 0
    /\ tasks = [k \in TaskIds |-> IdleTask]
    /\ call = <<>>
    /\ last_result = <<>>
    /\ NoWorkflow

HistoryNext ==
    \/ \E k \in TaskIds : Begin(k)
    \/ \E k \in TaskIds : Complete(k)
    \/ Tick

SpecHistory == HistoryInit /\ [][HistoryNext]_vars

(***************************************************************************)
(* C7.  As stated: after every record, no entry in any series of the       *)
(* store is older than now minus the retention window.                     *)
(***************************************************************************)
Stale(entry, t) == entry.timestamp < t - RetentionDays

C7_NoStaleEntryInAnySeries ==
    [][price_history' # price_history =>
         \A n \in DOMAIN price_history' :
            \A i \in 1..Len(price_history'[n]) :
               ~Stale(price_history'[n][i], now')]_vars

\* C7, amended: after a record for a product, no entry of that product's
\* list (whatever its retailer) is older than now minus the retention
\* window; the lists of the other products are left as they were.
C7_RecordedProductFresh ==
    [][\A n \in DOMAIN price_history' :
          IF HistoryOf(price_history', n) # HistoryOf(price_history, n)
          THEN \A i \in 1..Len(price_history'[n]) :
                  ~Stale(price_history'[n][i], now')
          ELSE TRUE]_vars

\* A record has just been made for one product (its newest entry is of
\* now) while another product's list holds an entry older than the window.
C7_Witness ==
    \E n \in DOMAIN price_history, m \in DOMAIN price_history :
       /\ n # m
       /\ \E i \in 1..Len(price_history[n]) :
             price_history[n][i].timestamp = now
       /\ \E j \in 1..Len(price_history[m]) : Stale(price_history[m][j], now)

(***************************************************************************)
(* C8.  Every entry of the store that is still inside the retention window *)
(* is still in the store after any step of any aggregation, as many times  *)
(* as before, also when two aggregations of one product are in flight.     *)
(***************************************************************************)
Count(list, e) == Cardinality({i \in 1..Len(list) : list[i] = e})

C8_EntriesSurvive ==
    [][\A n \in DOMAIN price_history :
          /\ n \in DOMAIN price_history'
          /\ \A i \in 1..Len(price_history[n]) :
                InWindow(price_history[n][i], now') =>
                   Count(price_history'[n], price_history[n][i])
                      >= Count(price_history[n], price_history[n][i])]_vars

\* Two aggregations of one product are in flight while the product's list
\* holds an entry of an earlier aggregation that is inside the window.
C8_Witness ==
    \E n \in DOMAIN price_history :
       /\ \A k \in TaskIds :
             tasks[k].pc = "fetching" /\ tasks[k].product_name = n
       /\ \E i \in 1..Len(price_history[n]) :
             InWindow(price_history[n][i], now)

(***************************************************************************)
(* C9.  As stated: an aggregation appends one entry per retailer, so that  *)
(* after one aggregation on an empty store every retailer's series has one *)
(* data point and its trend is insufficient_data.                          *)
(***************************************************************************)
C9_OneEntryPerSource ==
    [][/\ \A n \in DOMAIN price_history' : \A r \in Retailers :
             Len(RetailerHistory(price_history', n, r))
                <= Len(RetailerHistory(price_history, n, r)) + 1
       /\ (price_history = <<>> /\ price_history' # <<>>) =>
             \A n \in DOMAIN price_history' : \A r \in Retailers :
                Len(RetailerHistory(price_history', n, r)) > 0 =>
                   CalculatePriceTrend(price_history', n, r).trend
                      = "insufficient_data"]_vars

(***************************************************************************)
(* The trend calculator applied to a history list.  The lists are in       *)
(* insertion order; their timestamps are those of the wall clock, which    *)
(* may be set back between two records.                                    *)
(***************************************************************************)
TrendEntries ==
    [retailer : {"Amazon", "eBay"}, total_cost : {0, 19, 20, 21},
     timestamp : {0, TickDays}]

TrendCalls ==
    [name : {"laptop"}, retailer : {"Amazon", "eBay"},
     list : SeqsUpTo(TrendEntries, MaxTrendLen)]

TrendInit ==
    /\ call \in TrendCalls
    /\ price_history =
          (IF call.list = <<>> THEN <<>> ELSE ("laptop" :> call.list))
    /\ now = TickDays
    /\ tasks = [k \in TaskIds |-> IdleTask]
    /\ last_result = <<>>
    /\ NoWorkflow

ApplyTrend ==
    /\ last_result = <<>>
    /\ last_result' =
          CalculatePriceTrend(price_history, call.name, call.retailer)
    /\ UNCHANGED <<price_history, now, tasks, call, workflow_vars>>

TrendNext == ApplyTrend

SpecTrend == TrendInit /\ [][TrendNext]_vars

\* The series of the call: the retailer's entries, in insertion order.
CallSeries == SelectSeq(call.list, LAMBDA e : e.retailer = call.retailer)

\* The oldest entry is the first of those with the least timestamp, the
\* newest the last of those with the greatest.
OldestOf(series) ==
    series[CHOOSE i \in 1..Len(series) :
        /\ \A j \in 1..Len(series) :
              series[i].timestamp <= series[j].timestamp
        /\ \A j \in 1..(i - 1) : series[j].timestamp > series[i].timestamp]

NewestOf(series) ==
    series[CHOOSE i \in 1..Len(series) :
        /\ \A j \in 1..Len(series) :
              series[i].timestamp >= series[j].timestamp
        /\ \A j \in (i + 1)..Len(series) :
              series[j].timestamp < series[i].timestamp]

(***************************************************************************)
(* C10.  For a series of at least 2 entries, change_percent is             *)
(* (newest - oldest) / oldest * 100 over the series in timestamp order (0  *)
(* when oldest is 0), and the trend is increasing iff it is above 5,       *)
(* decreasing iff it is below -5, stable otherwise.                        *)
(***************************************************************************)
C10_TrendClassification ==
    (last_result # <<>> /\ Len(CallSeries) >= 2) =>
       LET o == OldestOf(CallSeries).total_cost
           n == NewestOf(CallSeries).total_cost
           up == o # 0 /\ (n - o) * 100 > 5 * o
           down == o # 0 /\ (n - o) * 100 < (0 - 5) * o
       IN  /\ last_result.trend \in {"increasing", "decreasing", "stable"}
           /\ last_result.trend = "increasing" <=> up
           /\ last_result.trend = "decreasing" <=> down
           /\ last_result.trend = "stable" <=> (~up /\ ~down)
           /\ last_result.change_percent =
                 (IF o = 0 THEN 0 ELSE RoundDiv((n - o) * 10000, o))
           /\ last_result.oldest_price = o
           /\ last_result.newest_price = n

\* A series whose newest price is exactly 5 percent above the oldest has
\* been classified, the list being out of timestamp order.
C10_Witness ==
    /\ last_result # <<>>
    /\ Len(CallSeries) >= 2
    /\ CallSeries[1].timestamp > CallSeries[Len(CallSeries)].timestamp
    /\ last_result.trend = "stable"
    /\ last_result.change_percent = 500

(***************************************************************************)
(* C11, as stated: the trend is no_data exactly when the series of the     *)
(* product and source has no entry, insufficient_data exactly when it has  *)
(* one, whatever the other sources of the product hold.                    *)
(***************************************************************************)
C11_NoDataIffSeriesEmpty ==
    last_result # <<>> =>
       /\ last_result.trend = "no_data" <=> Len(CallSeries) = 0
       /\ last_result.trend = "insufficient_data" <=> Len(CallSeries) = 1

(***************************************************************************)
(* C11, amended: the trend is no_data exactly when the store holds no      *)
(* list for the product, and insufficient_data exactly when it holds one   *)
(* and the series of the source has fewer than 2 entries (one entry, or    *)
(* none while other sources of the product have entries).                  *)
(***************************************************************************)
C11_NoDataIffProductUnknown ==
    last_result # <<>> =>
       /\ last_result.trend = "no_data" <=>
              call.name \notin DOMAIN price_history
       /\ last_result.trend = "insufficient_data" <=>
              /\ call.name \in DOMAIN price_history
              /\ Len(CallSeries) < 2

\* The product has entries of another source only, and the trend of the
\* source asked for is insufficient_data.
C11_Witness ==
    /\ last_result # <<>>
    /\ call.list # <<>>
    /\ Len(CallSeries) = 0
    /\ last_result.trend = "insufficient_data"

(***************************************************************************)
(* The aggregator applied to one query: the products of a search, the      *)
(* quotes of the secondary sources (none when a source is unconfigured,   *)
(* fails or finds nothing) and include_history, on a store an earlier      *)
(* aggregation may have left.  fault says that a quote is malformed, so    *)
(* that a statement of the try block raises on it.                         *)
(***************************************************************************)
GoogleAmazonQuote ==
    [retailer |-> "Amazon", total_cost |-> 18, product_id |-> "G1",
     rating |-> None, review_count |-> None]

AggregateQuoteLists ==
    ExternalQuoteLists \cup {<<GoogleAmazonQuote>>,
                             <<GoogleAmazonQuote, WalmartQuote>>}

AggregateCalls ==
    [has_name : BOOLEAN, name : {"laptop"}, products : ProductLists,
     ext : AggregateQuoteLists, incl : BOOLEAN, fault : BOOLEAN]

\* The stores the aggregation runs on: the empty one, and the one an
\* earlier aggregation of the same product left.
AggregateStores ==
    {<<>>, UpdatePriceHistory(<<>>, "laptop", <<GoogleAmazonQuote>>, 0)}

AggregateInit ==
    /\ call \in AggregateCalls
    /\ price_history \in AggregateStores
    /\ now = 0
    /\ tasks = [k \in TaskIds |-> IdleTask]
    /\ last_result = <<>>
    /\ NoWorkflow

ApplyAggregate ==
    /\ last_result = <<>>
    /\ LET out == ComparisonExecute(price_history, now, call.has_name,
                      call.name, call.products, call.ext, call.incl,
                      call.fault)
       IN  /\ last_result' = out.result
           /\ price_history' = out.hist
    /\ UNCHANGED <<now, tasks, call, workflow_vars>>

AggregateNext == ApplyAggregate

SpecAggregate == AggregateInit /\ [][AggregateNext]_vars

\* The merged quotes of the call, in the order of the sources.
MergedQuotes == GetPricesFromProductSearch(call.products) \o call.ext

SourcesOf(quotes) == {quotes[i].retailer : i \in 1..Len(quotes)}

CostsOf(quotes, r) ==
    {quotes[i].total_cost : i \in {j \in 1..Len(quotes) :
                                      quotes[j].retailer = r}}

Aggregated == last_result # <<>> /\ last_result.success

(***************************************************************************)
(* C12.  The output of the aggregator has exactly one comparison for each  *)
(* source of the merged quotes and none for another source, and the        *)
(* total_cost of a source's comparison is the least total_cost among that  *)
(* source's quotes.                                                        *)
(***************************************************************************)
C12_OneBestPerSource ==
    Aggregated =>
       LET comparisons == last_result.comparisons
       IN  /\ SourcesOf(comparisons) = SourcesOf(MergedQuotes)
           /\ \A r \in SourcesOf(MergedQuotes) :
                 /\ Cardinality({i \in 1..Len(comparisons) :
                                    comparisons[i].retailer = r}) = 1
                 /\ \A i \in 1..Len(comparisons) :
                       comparisons[i].retailer = r =>
                          /\ comparisons[i].total_cost \in CostsOf(MergedQuotes, r)
                          /\ \A c \in CostsOf(MergedQuotes, r) :
                                comparisons[i].total_cost <= c
                          /\ comparisons[i].options_count =
                                Len(QuotesOfRetailer(MergedQuotes, r))

\* One source gave a dearer quote first and a cheaper one second, a
\* secondary source a still cheaper one, and the comparison holds the
\* cheapest.
C12_Witness ==
    /\ Aggregated
    /\ Len(call.products) = 2
    /\ call.products[1].retailer = call.products[2].retailer
    /\ call.products[1].total_price > call.products[2].total_price
    /\ call.ext # <<>>
    /\ call.ext[1].retailer = call.products[1].retailer
    /\ last_result.comparisons[1].total_cost = call.ext[1].total_cost
    /\ last_result.comparisons[1].options_count = 3

(***************************************************************************)
(* C13.  The best deal is the comparison of least total_cost over all      *)
(* sources; savings is the greatest total_cost less the best one, never    *)
(* negative; savings_percent is savings / greatest * 100 rounded to two    *)
(* decimals, 0 when the greatest is 0; and a single quote of a single      *)
(* source is the best of its source and the best deal, with savings 0.     *)
(***************************************************************************)
Abs(x) == IF x < 0 THEN 0 - x ELSE x

C13_BestDealAndSavings ==
    Aggregated =>
       LET comparisons == last_result.comparisons
           best_deal == last_result.best_deal
           costs == {comparisons[i].total_cost : i \in 1..Len(comparisons)}
           greatest == CHOOSE c \in costs : \A d \in costs : c >= d
       IN  /\ \E i \in 1..Len(comparisons) :
                 /\ comparisons[i].retailer = best_deal.retailer
                 /\ comparisons[i].total_cost = best_deal.total_cost
           /\ \A c \in costs : best_deal.total_cost <= c
           /\ best_deal.savings = greatest - best_deal.total_cost
           /\ best_deal.savings >= 0
           /\ greatest = 0 => best_deal.savings_percent = 0
           /\ greatest > 0 =>
                 2 * Abs(best_deal.savings_percent * greatest
                            - best_deal.savings * 10000) <= greatest
           /\ Len(MergedQuotes) = 1 =>
                 /\ Len(comparisons) = 1
                 /\ comparisons[1].total_cost = MergedQuotes[1].total_cost
                 /\ best_deal.retailer = MergedQuotes[1].retailer
                 /\ best_deal.total_cost = MergedQuotes[1].total_cost
                 /\ best_deal.savings = 0
                 /\ best_deal.savings_percent = 0

\* Three sources were compared, the cheapest is not the first of them and
\* the savings are positive.
C13_Witness ==
    /\ Aggregated
    /\ Len(last_result.comparisons) = 3
    /\ last_result.best_deal.retailer # last_result.comparisons[1].retailer
    /\ last_result.best_deal.savings > 0
    /\ last_result.best_deal.savings_percent > 0

SCALE == 6 * 1000000

Absent == <<>>

WPrice == 3
WSentiment == 4
WRating == 2
WReviewCount == 1
BudgetWeight == 5
OverBudgetPenalty == 2
DefaultMaxRecommendations == 5

\* _normalize_score(value, min_val, max_val)
NormalizeScore(value, min_val, max_val) ==
    IF max_val = min_val THEN SCALE \div 2
    ELSE ((value - min_val) * SCALE) \div (max_val - min_val)

\* price <= budget, the budget defaulting to float('inf')
WithinBudget(price, prefs) == prefs.budget = None \/ price <= prefs.budget

\* price_score: with neither budget nor max_price the ceiling is infinite
\* and the normalized price is 0.
PriceScore(price, prefs) ==
    IF prefs.max_price # None
    THEN SCALE - NormalizeScore(price, 0, prefs.max_price)
    ELSE IF prefs.budget = None THEN SCALE
    ELSE SCALE - NormalizeScore(2 * price, 0, 3 * prefs.budget)

PriceTerm(price_data, prefs) ==
    IF price_data = Absent THEN 0
    ELSE IF WithinBudget(price_data.total_cost, prefs)
    THEN (WPrice * PriceScore(price_data.total_cost, prefs)) \div 10
    ELSE 0 - (OverBudgetPenalty * SCALE) \div 10

SentimentTerm(review_data) ==
    IF review_data = Absent THEN 0
    ELSE LET summary == review_data.sentiment_summary
             \* (avg_sentiment + positive_percent / 100) / 2
             sentiment_score ==
                 ((10 * summary.average_sentiment_score
                      + summary.positive_percent) * (SCALE \div 10000)) \div 2
         IN  (WSentiment * sentiment_score) \div 10

RatingTerm(product) ==
    IF product.rating > 0
    THEN (WRating * NormalizeScore(product.rating, 0, 50)) \div 10
    ELSE 0

\* log10 of a power of ten; the review counts of the model are powers of
\* ten less one.
RECURSIVE Log10(_)
Log10(n) == IF n < 10 THEN 0 ELSE 1 + Log10(n \div 10)

Min(a, b) == IF a <= b THEN a ELSE b
Max(a, b) == IF a >= b THEN a ELSE b

ReviewCountTerm(product) ==
    IF product.review_count > 0
    THEN LET review_score ==
                 Min((Log10(product.review_count + 1) * SCALE) \div 3, SCALE)
         IN  (WReviewCount * review_score) \div 10
    ELSE 0

BudgetMultiplierAlways(score, price_data, prefs) ==
    IF price_data # Absent
    THEN (score * (10 + BudgetWeight)) \div 10
    ELSE score

BudgetMultiplier(score, price_data, prefs) ==
    IF price_data # Absent /\ WithinBudget(price_data.total_cost, prefs)
    THEN (score * (10 + BudgetWeight)) \div 10
    ELSE score

ClampNone(score) == score

\* max(0.0, min(1.0, score))
Clamp(score) == Max(0, Min(SCALE, score))

\* rating > 0 and review_count > 0 raise TypeError on None.
ScoreRaises(product) == product.rating = None \/ product.review_count = None

CalculateProductScoreBonusOnPrice(product, price_data, review_data, prefs) ==
    Clamp(BudgetMultiplier(PriceTerm(price_data, prefs), price_data, prefs)
             + SentimentTerm(review_data)
             + RatingTerm(product)
             + ReviewCountTerm(product))

\* _calculate_product_score, for a product it does not raise on.
CalculateProductScore(product, price_data, review_data, prefs) ==
    Clamp(BudgetMultiplier(PriceTerm(price_data, prefs)
                              + SentimentTerm(review_data)
                              + RatingTerm(product)
                              + ReviewCountTerm(product),
                           price_data, prefs))

\* round(score, 3), in thousandths.
RoundScore(score) == RoundDiv(score, SCALE \div 1000)

(***************************************************************************)
(* The scoring function applied to one candidate.                          *)
(***************************************************************************)
Prefs(budget, max_price, min_rating, max_recs) ==
    [budget |-> budget, max_price |-> max_price, min_rating |-> min_rating,
     max_recommendations |-> max_recs]

Summary(avg, pos) ==
    [sentiment_summary |->
        [average_sentiment_score |-> avg, positive_percent |-> pos]]

ScoreCalls ==
    [product : Catalogue,
     price_data : {Absent} \cup {[total_cost |-> c] : c \in {0, 19, 21, 30}},
     review_data : {Absent, Summary(990, 10000), Summary(800, 4000),
                    Summary(500, 0)},
     prefs : {Prefs(b, m, None, None) : b \in {None, 0, 20},
                                        m \in {None, 10, 25}}]

ScoreInit ==
    /\ call \in ScoreCalls
    /\ price_history = <<>>
    /\ now = 0
    /\ tasks = [k \in TaskIds |-> IdleTask]
    /\ last_result = <<>>
    /\ NoWorkflow

ApplyScore ==
    /\ last_result = <<>>
    /\ last_result' =
          IF ScoreRaises(call.product) THEN [raised |-> TRUE]
          ELSE LET score == CalculateProductScore(call.product,
                                call.price_data, call.review_data, call.prefs)
               IN  [raised |-> FALSE, score |-> score,
                    rounded |-> RoundScore(score)]
    /\ UNCHANGED <<price_history, now, tasks, call, workflow_vars>>

ScoreNext == ApplyScore

SpecScore == ScoreInit /\ [][ScoreNext]_vars

(***************************************************************************)
(* C6.  Every score the scoring function returns, and the rounded score a  *)
(* recommendation carries, lies between 0 and 1.                           *)
(***************************************************************************)
C6_ScoreBounds ==
    (last_result # <<>> /\ ~last_result.raised) =>
       /\ 0 <= last_result.score /\ last_result.score <= SCALE
       /\ 0 <= last_result.rounded /\ last_result.rounded <= 1000

\* Scores have been clamped from above and from below: a candidate within
\* budget whose terms sum to more than 1, or one over budget with no other
\* signal.
C6_Witness ==
    /\ last_result # <<>>
    /\ ~last_result.raised
    /\ call.price_data # Absent
    /\ \/ /\ WithinBudget(call.price_data.total_cost, call.prefs)
          /\ call.review_data # Absent
          /\ last_result.score = SCALE
       \/ /\ ~WithinBudget(call.price_data.total_cost, call.prefs)
          /\ call.review_data = Absent
          /\ last_result.score = 0

(***************************************************************************)
(* ProductSearchAgent.execute.  found is what the platform adapters        *)
(* returned, fault says that the try block raised.                         *)
(***************************************************************************)
FailedSearch(error) ==
    [success |-> FALSE, error |-> error, products |-> <<>>,
     total_results |-> 0]

SearchExecute(has_term, term, found, fault) ==
    IF ~has_term THEN FailedSearch("Missing required field: search_term")
    ELSE IF fault THEN FailedSearch("exception")
    ELSE [success |-> TRUE, products |-> found,
          total_results |-> Len(found), search_term |-> term]

(***************************************************************************)
(* ReviewAnalysisAgent, with no HuggingFace key configured: the keyword    *)
(* analyser.  A review is the number of positive and of negative keywords  *)
(* its text holds.  Sentiment scores are in thousandths.                   *)
(***************************************************************************)
Review(positive_count, negative_count) ==
    [positive_count |-> positive_count, negative_count |-> negative_count]

AnalyzeSentimentSigned(review) ==
    IF review.positive_count > review.negative_count
    THEN [label |-> "POSITIVE",
          score |-> Min(700 + Min(review.positive_count * 100, 200), 990)]
    ELSE IF review.negative_count > review.positive_count
    THEN [label |-> "NEGATIVE",
          score |-> 1000 - Min(700 + Min(review.negative_count * 100, 200),
                               990)]
    ELSE [label |-> "NEUTRAL", score |-> 500]

AnalyzeSentiment(review) ==
    IF review.positive_count > review.negative_count
    THEN [label |-> "POSITIVE",
          score |-> Min(700 + Min(review.positive_count * 100, 200), 990)]
    ELSE IF review.negative_count > review.positive_count
    THEN [label |-> "NEGATIVE",
          score |-> Min(700 + Min(review.negative_count * 100, 200), 990)]
    ELSE [label |-> "NEUTRAL", score |-> 500]

RECURSIVE SumScores(_)
SumScores(results) ==
    IF results = <<>> THEN 0
    ELSE Head(results).score + SumScores(Tail(results))

CountLabel(results, label) ==
    Cardinality({i \in 1..Len(results) : results[i].label = label})

\* average_sentiment_score in thousandths, the percentages in hundredths
\* of a percent.
SentimentSummary(results) ==
    LET total_reviews == Len(results)
        avg == RoundDiv(SumScores(results), total_reviews)
    IN  [total_reviews |-> total_reviews,
         positive_count |-> CountLabel(results, "POSITIVE"),
         negative_count |-> CountLabel(results, "NEGATIVE"),
         neutral_count |-> CountLabel(results, "NEUTRAL"),
         positive_percent |->
             RoundDiv(CountLabel(results, "POSITIVE") * 10000, total_reviews),
         negative_percent |->
             RoundDiv(CountLabel(results, "NEGATIVE") * 10000, total_reviews),
         average_sentiment_score |-> avg,
         overall_sentiment |->
             IF SumScores(results) * 10 > 6000 * total_reviews THEN "POSITIVE"
             ELSE IF SumScores(results) * 10 < 4000 * total_reviews
                  THEN "NEGATIVE"
                  ELSE "NEUTRAL"]

FailedReview(error) ==
    [success |-> FALSE, error |-> error, analyzed_reviews |-> <<>>]

\* execute; fault says that the try block raised.
ReviewExecute(has_reviews, reviews, fault) ==
    IF ~has_reviews THEN FailedReview("Missing required field: reviews")
    ELSE IF reviews = <<>> THEN FailedReview("No reviews provided")
    ELSE IF fault THEN FailedReview("exception")
    ELSE LET sentiment_results ==
                 [i \in 1..Len(reviews) |-> AnalyzeSentiment(reviews[i])]
         IN  [success |-> TRUE,
              analyzed_reviews |->
                  [i \in 1..Len(reviews) |->
                      [review |-> reviews[i],
                       sentiment |-> sentiment_results[i]]],
              sentiment_summary |-> SentimentSummary(sentiment_results)]

(***************************************************************************)
(* RecommendationEngineAgent.execute                                       *)
(***************************************************************************)
\* dict.get(key): the value, or Absent (None).
Get(dict, key) == IF key \in DOMAIN dict THEN dict[key] ELSE Absent

FailedRecommendation(error) ==
    [success |-> FALSE, error |-> error, recommendations |-> <<>>]

Recommendation(product, price_data, review_data, prefs) ==
    [product |-> product,
     score |-> RoundScore(CalculateProductScore(product, price_data,
                                                review_data, prefs)),
     price_data |-> price_data,
     review_data |-> review_data]

MinRatingIgnored(prefs) == 0

\* user_preferences.get("min_rating", 0)
MinRating(prefs) == IF prefs.min_rating = None THEN 0 ELSE prefs.min_rating

RECURSIVE InsertByScoreBeforeEqual(_, _)
InsertByScoreBeforeEqual(sorted, r) ==
    IF sorted = <<>> THEN <<r>>
    ELSE IF sorted[Len(sorted)].score > r.score
         THEN Append(sorted, r)
         ELSE Append(InsertByScoreBeforeEqual(SubSeq(sorted, 1,
                                                     Len(sorted) - 1), r),
                     sorted[Len(sorted)])

\* list.sort(key=score, reverse=True): stable, the highest score first.
RECURSIVE InsertByScore(_, _)
InsertByScore(sorted, r) ==
    IF sorted = <<>> THEN <<r>>
    ELSE IF sorted[Len(sorted)].score >= r.score
         THEN Append(sorted, r)
         ELSE Append(InsertByScore(SubSeq(sorted, 1, Len(sorted) - 1), r),
                     sorted[Len(sorted)])

RECURSIVE SortByScore(_)
SortByScore(s) ==
    IF s = <<>> THEN <<>>
    ELSE InsertByScore(SortByScore(SubSeq(s, 1, Len(s) - 1)), s[Len(s)])

\* scored_products[:max_recommendations], for max_recommendations >= 0
Truncate(s, n) == SubSeq(s, 1, Min(n, Len(s)))

RecommendationSummary(recommendations) ==
    IF recommendations = <<>>
    THEN [total_recommendations |-> 0,
          message |-> "No products met the criteria"]
    ELSE [total_recommendations |-> Len(recommendations),
          top_recommendation |->
              [product_id |-> recommendations[1].product.product_id,
               score |-> recommendations[1].score]]

\* execute.  The scoring function raises on a product whose rating or
\* review_count is None; the except clause turns that into a failure.
RecommendationExecute(has_products, products, pcs, ras, prefs, max_recs) ==
    IF ~has_products
    THEN FailedRecommendation("Missing required field: products")
    ELSE IF products = <<>> THEN FailedRecommendation("No products provided")
    ELSE IF \E i \in 1..Len(products) : ScoreRaises(products[i])
    THEN FailedRecommendation("TypeError")
    ELSE LET all == [i \in 1..Len(products) |->
                        Recommendation(products[i],
                                       Get(pcs, products[i].product_id),
                                       Get(ras, products[i].product_id),
                                       prefs)]
             scored_products ==
                 SelectSeq(all,
                           LAMBDA r : ~(r.product.rating < MinRating(prefs)))
             recommendations ==
                 Truncate(SortByScore(scored_products), max_recs)
         IN  [success |-> TRUE,
              recommendations |-> recommendations,
              summary |-> RecommendationSummary(recommendations)]

(***************************************************************************)
(* WorkflowManager._extract_reviews_from_products: the generated reviews,  *)
(* by the number of positive and negative keywords of their texts.         *)
(***************************************************************************)
GeneratedReviews(rating) ==
    IF rating >= 45
    THEN <<Review(1, 0), Review(2, 0), Review(1, 0), Review(1, 0),
           Review(1, 0)>>
    ELSE IF rating >= 40
    THEN <<Review(1, 0), Review(0, 0), Review(0, 0), Review(0, 0),
           Review(0, 0)>>
    ELSE <<Review(1, 1), Review(0, 1), Review(0, 0), Review(0, 1),
           Review(0, 1)>>

\* rating >= 4.5 raises TypeError when the rating is None.
ExtractRaises(products) ==
    \E i \in 1..Len(products) : products[i].rating = None

\* reviews_by_product, as the list of its items in insertion order.
ExtractReviewsFromProducts(products) ==
    LET keyed == SelectSeq(products, LAMBDA p : p.product_id # "")
    IN  [i \in 1..Len(keyed) |->
            [product_id |-> keyed[i].product_id,
             reviews |-> GeneratedReviews(keyed[i].rating)]]

\* _analyze_product_reviews: the result of the agent with the product_id
\* set on it.
AnalyzeProductReviews(product_id, reviews, fault) ==
    [product_id |-> product_id] @@ ReviewExecute(TRUE, reviews, fault)

(***************************************************************************)
(* WorkflowManager.execute_workflow.  The coroutine is followed from one   *)
(* stage to the next; log holds the stages it announced on its logger.     *)
(* A string-valued field that holds None holds NoError.                    *)
(***************************************************************************)
NoError == "None"

SearchTerm == "laptop"

UserPreferences ==
    {Prefs(b, None, r, m) : b \in {None, 20}, r \in {None, 45},
                            m \in {None, 1}}

\* The user_query dictionaries; has_search_term says whether the key
\* "search_term" is present.
UserQueries ==
    [entry : {"execute_workflow"},
     has_search_term : BOOLEAN,
     search_term : {SearchTerm},
     include_price_comparison : BOOLEAN,
     include_review_analysis : BOOLEAN,
     user_preferences : UserPreferences]

NewWorkflowResult ==
    [success |-> FALSE, workflow_steps |-> <<>>, recommendations |-> <<>>,
     summary |-> <<>>, error |-> NoError]

NewLocals ==
    [products |-> <<>>, price_comparisons |-> <<>>,
     review_analyses |-> <<>>, search_result |-> Absent,
     comparison_result |-> Absent, review_results |-> Absent,
     recommendation_result |-> Absent]

\* workflow_result["workflow_steps"][step] = result
SetStep(wr, step, result) ==
    [wr EXCEPT !.workflow_steps = (step :> result) @@ wr.workflow_steps]

Skipped == [success |-> FALSE, skipped |-> TRUE]

\* The except clause of execute_workflow: the run ends with the error.
PropagateException(wr, error) ==
    [pc |-> "raised", workflow_result |-> wr]

HandleException(wr, error) ==
    [pc |-> "done",
     workflow_result |->
         [wr EXCEPT !.error = error,
                    !.summary = [error |-> error, workflow_failed |-> TRUE]]]

\* The stores a run of the workflow starts on: the empty one, and the one
\* an earlier aggregation of the same search term left.
StartHistories ==
    {<<>>,
     UpdatePriceHistory(<<>>, SearchTerm,
         GetPricesFromProductSearch(
             <<CHOOSE p \in Catalogue : p.product_id = "A2">>), 0)}

\* Lines 88-120: the result is initialised and the query validated.
StartWorkflow ==
    /\ pc = "idle"
    /\ last_result = <<>>
    /\ \E q \in UserQueries :
          /\ call' = q
          /\ IF ~q.has_search_term
             THEN /\ pc' = "done"
                  /\ workflow_result' =
                        [NewWorkflowResult EXCEPT
                            !.error = "Missing required field: search_term"]
                  /\ log' = <<>>
             ELSE /\ pc' = "search"
                  /\ workflow_result' = NewWorkflowResult
                  /\ log' = <<"product_search">>
    /\ locals' = NewLocals
    /\ UNCHANGED <<price_history, now, tasks, last_result>>

SearchAbortsOnFailureOnly(search_result) == ~search_result.success

\* not search_result.get("success") or not search_result.get("products")
SearchAborts(search_result) ==
    ~search_result.success \/ search_result.products = <<>>

\* Lines 122-134: the search returns; a failed or empty search ends the run.
SearchStage ==
    /\ pc = "search"
    /\ \E found \in ProductLists, fault \in BOOLEAN :
          LET search_result ==
                  SearchExecute(TRUE, call.search_term, found, fault)
              stored == SetStep(workflow_result, "product_search",
                                search_result)
          IN  /\ locals' = [locals EXCEPT
                               !.search_result = search_result,
                               !.products = search_result.products]
              /\ IF SearchAborts(search_result)
                 THEN /\ pc' = "done"
                      /\ workflow_result' =
                            [stored EXCEPT
                                !.error =
                                    "Product search failed or no products found",
                                !.summary =
                                    [step |-> "product_search",
                                     message |->
                                         "No products found matching the search criteria"]]
                 ELSE /\ pc' = "price"
                      /\ workflow_result' = stored
    /\ UNCHANGED <<price_history, now, tasks, call, last_result, log>>

\* price_comparisons / review_analyses: the results keyed by product_id, a
\* later result replacing an earlier one of the same key.
RECURSIVE MapByProductId(_)
MapByProductId(results) ==
    IF results = <<>> THEN <<>>
    ELSE LET front == MapByProductId(SubSeq(results, 1, Len(results) - 1))
             last == results[Len(results)]
         IN  (last.product_id :> last) @@ front

\* A Google Shopping item of a retailer the search did not cover; its
\* cacheId becomes the product_id of the quote.
GoogleTargetQuote ==
    [retailer |-> "Target", total_cost |-> 17, product_id |-> "G2",
     rating |-> None, review_count |-> None]

\* What the secondary sources return within a run: use_google_shopping is
\* a field of the user query, the keys are configuration.
PipelineQuoteLists ==
    ExternalQuoteLists \cup {<<GoogleAmazonQuote>>, <<GoogleTargetQuote>>}

\* Lines 136-164: the price stage, or its skipped marker.
PriceStage ==
    /\ pc = "price"
    /\ IF call.include_price_comparison
       THEN \E ext \in PipelineQuoteLists, fault \in BOOLEAN :
               LET out == ComparisonExecute(price_history, now, TRUE,
                              call.search_term, locals.products, ext, FALSE,
                              fault)
                   comparison_result == out.result
                   keyed == SelectSeq(comparison_result.comparisons,
                                      LAMBDA comp : comp.product_id # "")
               IN  /\ price_history' = out.hist
                   /\ workflow_result' =
                         SetStep(workflow_result, "price_comparison",
                                 comparison_result)
                   /\ locals' = [locals EXCEPT
                         !.comparison_result = comparison_result,
                         !.price_comparisons =
                             IF comparison_result.success
                             THEN MapByProductId(keyed) ELSE <<>>]
                   /\ log' = Append(log, "price_comparison")
       ELSE /\ workflow_result' =
                  SetStep(workflow_result, "price_comparison", Skipped)
            /\ log' = Append(log, "skip price_comparison")
            /\ UNCHANGED <<price_history, locals>>
    /\ pc' = "review"
    /\ UNCHANGED <<now, tasks, call, last_result>>

\* What one task of the gather returned: the result of the agent, or the
\* exception the task raised.
ReviewOutcomes == {"ok", "failed", "raised"}

ReviewTaskResult(item, outcome) ==
    IF outcome = "raised" THEN [exception |-> "exception"]
    ELSE AnalyzeProductReviews(item.product_id, item.reviews,
                               outcome = "failed")

IsException(result) == "exception" \in DOMAIN result

\* Lines 166-208: the review stage, or its skipped marker.  An exception of
\* _extract_reviews_from_products reaches the except clause of the run.
ReviewStage ==
    /\ pc = "review"
    /\ IF ~call.include_review_analysis
       THEN /\ workflow_result' =
                  SetStep(workflow_result, "review_analysis", Skipped)
            /\ log' = Append(log, "skip review_analysis")
            /\ pc' = "score"
            /\ UNCHANGED locals
       ELSE /\ log' = Append(log, "review_analysis")
            /\ IF ExtractRaises(locals.products)
               THEN LET caught == HandleException(workflow_result, "TypeError")
                    IN  /\ pc' = caught.pc
                        /\ workflow_result' = caught.workflow_result
                        /\ UNCHANGED locals
               ELSE LET items == ExtractReviewsFromProducts(locals.products)
                    IN  \E outcome \in [1..Len(items) -> ReviewOutcomes] :
                          LET review_results ==
                                  [i \in 1..Len(items) |->
                                      ReviewTaskResult(items[i], outcome[i])]
                              succeeded ==
                                  SelectSeq(review_results,
                                      LAMBDA r : ~IsException(r) /\ r.success)
                              review_analyses == MapByProductId(succeeded)
                          IN  /\ locals' = [locals EXCEPT
                                    !.review_results = review_results,
                                    !.review_analyses = review_analyses]
                              /\ workflow_result' =
                                    SetStep(workflow_result, "review_analysis",
                                        [success |->
                                             Cardinality(DOMAIN review_analyses) > 0,
                                         products_analyzed |->
                                             Cardinality(DOMAIN review_analyses)])
                              /\ pc' = "score"
    /\ UNCHANGED <<price_history, now, tasks, call, last_result>>

\* user_preferences.get("max_recommendations", 5)
MaxRecommendations(prefs) ==
    IF prefs.max_recommendations = None THEN DefaultMaxRecommendations
    ELSE prefs.max_recommendations

\* Lines 236-241: the run fails with the error of the scoring stage.
ScoreFailedNoError(wr, recommendation_result) ==
    [wr EXCEPT !.summary = [step |-> "recommendation",
                            message |-> "Failed to generate recommendations"]]

ScoreFailed(wr, recommendation_result) ==
    [wr EXCEPT !.error = recommendation_result.error,
               !.summary = [step |-> "recommendation",
                            message |-> "Failed to generate recommendations"]]

\* Lines 226-230: the keys the run adds to the summary of the scoring
\* stage.  workflow_result["summary"] is the very dictionary the stage
\* returned, so the keys show in the stage's result as well.
CompletedSummary(summary, l) ==
    [workflow_completed |-> TRUE,
     total_products_found |-> Len(l.products),
     price_comparisons_count |-> Cardinality(DOMAIN l.price_comparisons),
     review_analyses_count |-> Cardinality(DOMAIN l.review_analyses)]
    @@ summary

\* Lines 223-230: the run succeeds with the recommendations of the stage.
ScoreSucceeded(wr, recommendation_result) ==
    [wr EXCEPT !.success = TRUE,
               !.recommendations = recommendation_result.recommendations,
               !.summary = recommendation_result.summary]

\* Lines 210-243: the scoring stage and the outcome of the run.
ScoreStage ==
    /\ pc = "score"
    /\ LET returned ==
               RecommendationExecute(TRUE, locals.products,
                   locals.price_comparisons, locals.review_analyses,
                   call.user_preferences,
                   MaxRecommendations(call.user_preferences))
           recommendation_result ==
               IF returned.success
               THEN [returned EXCEPT
                        !.summary = CompletedSummary(returned.summary, locals)]
               ELSE returned
           stored == SetStep(workflow_result, "recommendation",
                             recommendation_result)
       IN  /\ locals' = [locals EXCEPT
                            !.recommendation_result = recommendation_result]
           /\ workflow_result' =
                 IF recommendation_result.success
                 THEN ScoreSucceeded(stored, recommendation_result)
                 ELSE ScoreFailed(stored, recommendation_result)
    /\ log' = Append(log, "recommendation")
    /\ pc' = "done"
    /\ UNCHANGED <<price_history, now, tasks, call, last_result>>

\* The run hands workflow_result to its caller, or the exception that
\* left execute_workflow.
Return ==
    /\ pc \in {"done", "raised"}
    /\ last_result' =
          IF pc = "done" THEN workflow_result ELSE [exception |-> "exception"]
    /\ pc' = "returned"
    /\ UNCHANGED <<price_history, now, tasks, call, workflow_result, locals,
                   log>>

(***************************************************************************)
(* The single-stage entry points: each hands its arguments to one agent    *)
(* and returns what the agent returned.                                    *)
(***************************************************************************)
SearchProductsOnly ==
    /\ pc = "idle"
    /\ last_result = <<>>
    /\ \E found \in ProductLists, fault \in BOOLEAN :
          last_result' = SearchExecute(TRUE, SearchTerm, found, fault)
    /\ call' = [entry |-> "search_products_only"]
    /\ UNCHANGED <<price_history, now, tasks, workflow_vars>>

ComparePricesOnly ==
    /\ pc = "idle"
    /\ last_result = <<>>
    /\ \E products \in ProductLists, ext \in ExternalQuoteLists,
          fault \in BOOLEAN :
          LET out == ComparisonExecute(price_history, now, TRUE, SearchTerm,
                                       products, ext, FALSE, fault)
          IN  /\ price_history' = out.hist
              /\ last_result' = out.result
    /\ call' = [entry |-> "compare_prices_only"]
    /\ UNCHANGED <<now, tasks, workflow_vars>>

ReviewLists == {<<>>} \cup {GeneratedReviews(r) : r \in {46, 40, 35}}

AnalyzeReviewsOnly ==
    /\ pc = "idle"
    /\ last_result = <<>>
    /\ \E reviews \in ReviewLists, fault \in BOOLEAN :
          last_result' = ReviewExecute(TRUE, reviews, fault)
    /\ call' = [entry |-> "analyze_reviews_only"]
    /\ UNCHANGED <<price_history, now, tasks, workflow_vars>>

GenerateRecommendationsOnly ==
    /\ pc = "idle"
    /\ last_result = <<>>
    /\ \E products \in ProductLists, prefs \in UserPreferences :
          last_result' =
              RecommendationExecute(TRUE, products, <<>>, <<>>, prefs,
                                    DefaultMaxRecommendations)
    /\ call' = [entry |-> "generate_recommendations_only"]
    /\ UNCHANGED <<price_history, now, tasks, workflow_vars>>

(***************************************************************************)
(* The workflow manager: one call of an entry point.                       *)
(***************************************************************************)
Init ==
    /\ price_history \in StartHistories
    /\ now = 0
    /\ tasks = [k \in TaskIds |-> IdleTask]
    /\ call = <<>>
    /\ last_result = <<>>
    /\ NoWorkflow

Next ==
    \/ StartWorkflow
    \/ SearchStage
    \/ PriceStage
    \/ ReviewStage
    \/ ScoreStage
    \/ Return
    \/ SearchProductsOnly
    \/ ComparePricesOnly
    \/ AnalyzeReviewsOnly
    \/ GenerateRecommendationsOnly

Spec == Init /\ [][Next]_vars

(***************************************************************************)
(* Claims about a run of execute_workflow.                                 *)
(***************************************************************************)
Announced(stage) == \E i \in 1..Len(log) : log[i] = stage

RunOver == pc \in {"done", "returned"}

SearchFound ==
    /\ pc # "idle"
    /\ locals.search_result # Absent
    /\ locals.search_result.success
    /\ locals.search_result.products # <<>>

(***************************************************************************)
(* C1.  In every run whose search returned at least one product the        *)
(* scoring stage is executed, whatever happened in the price and review    *)
(* stages: a run that is over has announced and recorded its scoring       *)
(* stage.                                                                  *)
(***************************************************************************)
C1_ScoreAlwaysRuns ==
    (RunOver /\ SearchFound) =>
       /\ Announced("recommendation")
       /\ "recommendation" \in DOMAIN workflow_result.workflow_steps

(***************************************************************************)
(* C2.  A search that fails or returns no product ends the run at once:    *)
(* the run is over with success false, an error and no recommendation, no  *)
(* stage but the search was announced or recorded, the price history is    *)
(* left as it was, and the caller receives that result.                    *)
(***************************************************************************)
SearchEndedRun ==
    /\ pc # "idle"
    /\ locals.search_result # Absent
    /\ \/ ~locals.search_result.success
       \/ locals.search_result.products = <<>>

C2_SearchFailureIsTerminal ==
    [][SearchEndedRun' =>
          /\ pc' \in {"done", "returned"}
          /\ ~workflow_result'.success
          /\ workflow_result'.error # NoError
          /\ workflow_result'.recommendations = <<>>
          /\ log' = <<"product_search">>
          /\ DOMAIN workflow_result'.workflow_steps = {"product_search"}
          /\ price_history' = price_history
          /\ (pc' = "returned" => last_result' = workflow_result')]_vars

\* A search that succeeded with an empty list has ended a run on a store
\* that holds entries, and the caller has the result.
C2_Witness ==
    /\ pc = "returned"
    /\ SearchEndedRun
    /\ locals.search_result.success
    /\ price_history # <<>>
    /\ ~last_result.success

(***************************************************************************)
(* C3.  Whatever an entry point was handed and whatever its collaborators  *)
(* did, what the caller receives is a result carrying a success boolean:   *)
(* no exception leaves execute_workflow or a single-stage entry point.     *)
(***************************************************************************)
C3_StructuredResult ==
    /\ pc # "raised"
    /\ last_result # <<>> =>
          /\ ~IsException(last_result)
          /\ "success" \in DOMAIN last_result
          /\ last_result.success \in BOOLEAN

\* _extract_reviews_from_products raised inside a run and the caller still
\* received a result.
C3_Witness ==
    /\ pc = "returned"
    /\ Announced("review_analysis")
    /\ ExtractRaises(locals.products)
    /\ last_result.success = FALSE
    /\ last_result.error = "TypeError"

(***************************************************************************)
(* C4.  A run that is over with success false has its error set and no     *)
(* recommendation; one that is over with success true has no error; and    *)
(* success is true exactly when the scoring stage returned success.        *)
(***************************************************************************)
ScoreReturnedSuccess ==
    /\ locals.recommendation_result # Absent
    /\ locals.recommendation_result.success

C4_ErrorIffFailure ==
    RunOver =>
       /\ ~workflow_result.success =>
             /\ workflow_result.error # NoError
             /\ workflow_result.recommendations = <<>>
       /\ workflow_result.success => workflow_result.error = NoError
       /\ workflow_result.success <=> ScoreReturnedSuccess
       /\ pc = "returned" => last_result = workflow_result

\* The scoring stage failed (a product with no rating reached it) and the
\* run reports its error.
C4_Witness ==
    /\ pc = "returned"
    /\ locals.recommendation_result # Absent
    /\ ~locals.recommendation_result.success
    /\ ~last_result.success
    /\ last_result.error = locals.recommendation_result.error

(***************************************************************************)
(* C5.  When a run is over, workflow_steps holds the raw result of every   *)
(* stage the run executed: the result of the search, of the price          *)
(* aggregation and of the scoring as the agents returned them, and the     *)
(* result of the review analysis of every product.                         *)
(***************************************************************************)
C5_RawResultsKept ==
    RunOver =>
       LET steps == workflow_result.workflow_steps
       IN  /\ Announced("product_search") =>
                /\ "product_search" \in DOMAIN steps
                /\ steps["product_search"] = locals.search_result
           /\ Announced("price_comparison") =>
                /\ "price_comparison" \in DOMAIN steps
                /\ steps["price_comparison"] = locals.comparison_result
           /\ Announced("recommendation") =>
                /\ "recommendation" \in DOMAIN steps
                /\ steps["recommendation"] = locals.recommendation_result
           /\ Announced("review_analysis") =>
                /\ "review_analysis" \in DOMAIN steps
                /\ \A i \in 1..Len(locals.review_results) :
                      LET result == locals.review_results[i]
                      IN  ~IsException(result) =>
                             /\ result.product_id
                                    \in DOMAIN steps["review_analysis"]
                             /\ steps["review_analysis"][result.product_id]
                                    = result

(***************************************************************************)
(* ReviewAnalysisAgent.execute with its classification calls in flight.    *)
(* One coroutine per review is gathered; the coroutines finish in any      *)
(* order.  A review with a string text is the number of positive and of    *)
(* negative keywords and the set of themes its text mentions; TextNone is  *)
(* a review whose "text" is None.  pc is "gather" while calls are in       *)
(* flight, tasks[i] is the outcome of call i once it finished, locals is   *)
(* the order in which the calls finished.                                  *)
(***************************************************************************)
MaxReviews == 2

ThemeOrder ==
    <<"quality", "price", "shipping", "customer_service", "functionality",
      "performance", "design">>

MaxThemes == 5

TextReview(positive_count, negative_count, themes) ==
    [positive_count |-> positive_count, negative_count |-> negative_count,
     themes |-> themes]

TextNone == [text |-> None]

IsText(review) == "positive_count" \in DOMAIN review

PositiveReview == TextReview(1, 0, {"quality", "performance"})

NegativeReview ==
    TextReview(0, 2, {"quality", "price", "shipping", "functionality",
                      "design"})

ReviewBatches == SeqsUpTo({PositiveReview, NegativeReview, TextNone},
                          MaxReviews)

Pending == [status |-> "pending"]

Raised(error) == [exception |-> error]

NeutralDefault == [label |-> "NEUTRAL", score |-> 500]

\* What the inference API does with one request.  It answers 200 with a
\* list of predictions (best is the label of the highest score, as the
\* model spells it) or with a dictionary, it answers 503 while the model is
\* loading, or the request fails (another status, a timeout, a connection
\* error).
ListResponse(best) == [status |-> "200", body |-> "list", label |-> best]

DictResponse(label) == [status |-> "200", body |-> "dict", label |-> label]

LoadingResponse == [status |-> "503"]

FailedResponse == [status |-> "failed"]

\* label.upper(), for the labels of the model
Upper(label) ==
    IF label = "positive" THEN "POSITIVE"
    ELSE IF label = "negative" THEN "NEGATIVE"
    ELSE IF label = "neutral" THEN "NEUTRAL"
    ELSE label

\* The responses that end a call.
ApiResponses ==
    {ListResponse("positive"), ListResponse("LABEL_2"),
     DictResponse("positive"), FailedResponse}

\* Lines 86-99 and 105-115: what _analyze_sentiment returns on a response
\* other than 503.  A dictionary is returned as it is.
ResponseResult(response) ==
    IF response.status # "200" THEN NeutralDefault
    ELSE IF response.body = "list"
    THEN [label |-> Upper(response.label), score |-> 990]
    ELSE [label |-> response.label, score |-> 990]

\* _analyze_sentiment.  Without a key the keyword analyser runs and
\* text.lower() raises on a text that is no string; with a key every failure
\* of the request is caught inside and answered with the neutral default.
AnalyzeSentimentCall(has_key, review, api) ==
    IF ~has_key
    THEN IF IsText(review) THEN AnalyzeSentiment(review)
         ELSE Raised("AttributeError")
    ELSE ResponseResult(api)

\* asyncio.gather(*tasks, return_exceptions=True): the outcomes in the order
\* of the calls, whatever the order of completion.
Gather(outcomes, completion) == [i \in 1..Len(outcomes) |-> outcomes[i]]

\* Lines 224-226.
SubstituteDefault(sentiment_result) ==
    IF IsException(sentiment_result) THEN NeutralDefault
    ELSE sentiment_result

AnalyzedReview(review, sentiment_result) ==
    [review |-> review, sentiment |-> SubstituteDefault(sentiment_result)]

Mentions(reviews, theme, label) ==
    Cardinality({i \in 1..Len(reviews) :
                    /\ theme \in reviews[i].review.themes
                    /\ reviews[i].sentiment.label = label})

\* percentages in hundredths of a percent, sentiment_ratio in hundredths
ThemeEntry(reviews, theme) ==
    LET positive == Mentions(reviews, theme, "POSITIVE")
        negative == Mentions(reviews, theme, "NEGATIVE")
        neutral == Mentions(reviews, theme, "NEUTRAL")
        total_mentions == positive + negative + neutral
    IN  [theme |-> theme,
         total_mentions |-> total_mentions,
         positive_mentions |-> positive,
         negative_mentions |-> negative,
         neutral_mentions |-> neutral,
         positive_percent |-> RoundDiv(positive * 10000,
                                       Max(total_mentions, 1)),
         negative_percent |-> RoundDiv(negative * 10000,
                                       Max(total_mentions, 1)),
         sentiment_ratio |-> RoundDiv(positive * 100,
                                      Max(total_mentions, 1))]

\* themes.sort(key=total_mentions, reverse=True): stable.
RECURSIVE InsertByMentions(_, _)
InsertByMentions(sorted, t) ==
    IF sorted = <<>> THEN <<t>>
    ELSE IF sorted[Len(sorted)].total_mentions >= t.total_mentions
         THEN Append(sorted, t)
         ELSE Append(InsertByMentions(SubSeq(sorted, 1, Len(sorted) - 1), t),
                     sorted[Len(sorted)])

RECURSIVE SortByMentions(_)
SortByMentions(s) ==
    IF s = <<>> THEN <<>>
    ELSE InsertByMentions(SortByMentions(SubSeq(s, 1, Len(s) - 1)),
                          s[Len(s)])

RECURSIVE MentionedThemes(_, _)
MentionedThemes(reviews, k) ==
    IF k = 0 THEN <<>>
    ELSE LET entry == ThemeEntry(reviews, ThemeOrder[k])
             before == MentionedThemes(reviews, k - 1)
         IN  IF entry.total_mentions > 0 THEN Append(before, entry)
             ELSE before

\* _extract_themes: review.get("text", "").lower() raises on a text that is
\* no string.
ExtractThemes(reviews) ==
    IF \E i \in 1..Len(reviews) : ~IsText(reviews[i].review)
    THEN Raised("AttributeError")
    ELSE [themes |->
             Truncate(SortByMentions(MentionedThemes(reviews,
                                                     Len(ThemeOrder))),
                      MaxThemes)]

\* execute, from the gathered sentiment_results on.
ReviewExecuteGathered(has_reviews, reviews, sentiment_results, extract_themes) ==
    IF ~has_reviews THEN FailedReview("Missing required field: reviews")
    ELSE IF reviews = <<>> THEN FailedReview("No reviews provided")
    ELSE LET analyzed_reviews ==
                 [i \in 1..Len(reviews) |->
                     AnalyzedReview(reviews[i], sentiment_results[i])]
             sentiments ==
                 [i \in 1..Len(reviews) |-> analyzed_reviews[i].sentiment]
             result ==
                 [success |-> TRUE,
                  analyzed_reviews |-> analyzed_reviews,
                  sentiment_summary |-> SentimentSummary(sentiments)]
             extracted == ExtractThemes(analyzed_reviews)
         IN  IF ~extract_themes THEN result
             ELSE IF IsException(extracted)
                  THEN FailedReview(extracted.exception)
                  ELSE [success |-> TRUE,
                        analyzed_reviews |-> analyzed_reviews,
                        sentiment_summary |-> SentimentSummary(sentiments),
                        themes |-> extracted.themes]

ReviewCalls ==
    [has_reviews : BOOLEAN, reviews : ReviewBatches,
     extract_themes : BOOLEAN, has_key : BOOLEAN]

ReviewInit ==
    /\ call \in ReviewCalls
    /\ tasks = [i \in 1..Len(call.reviews) |-> Pending]
    /\ pc = "gather"
    /\ locals = <<>>
    /\ last_result = <<>>
    /\ price_history = <<>>
    /\ now = 0
    /\ workflow_result = <<>>
    /\ log = <<>>

\* One classification call finishes.
Classify(i) ==
    /\ pc = "gather"
    /\ call.has_reviews
    /\ tasks[i] = Pending
    /\ \E api \in ApiResponses :
           tasks' = [tasks EXCEPT ![i] =
                        AnalyzeSentimentCall(call.has_key, call.reviews[i],
                                             api)]
    /\ locals' = Append(locals, i)
    /\ UNCHANGED <<price_history, now, call, last_result, pc,
                   workflow_result, log>>

\* gather returns when every call has finished; execute returns.
ReviewReturn ==
    /\ pc = "gather"
    /\ \/ ~call.has_reviews
       \/ \A i \in 1..Len(tasks) : tasks[i] # Pending
    /\ last_result' =
           ReviewExecuteGathered(call.has_reviews, call.reviews,
                                 Gather(tasks, locals), call.extract_themes)
    /\ pc' = "returned"
    /\ UNCHANGED <<price_history, now, tasks, call, locals,
                   workflow_result, log>>

ReviewNext ==
    \/ \E i \in 1..MaxReviews : i <= Len(call.reviews) /\ Classify(i)
    \/ ReviewReturn

SpecReview == ReviewInit /\ [][ReviewNext]_vars

\* The sentiment obtained for review i: the outcome of call i, the neutral
\* default standing for a call that raised.
Obtained(i) == SubstituteDefault(tasks[i])

ClassificationFailed(i) ==
    \/ IsException(tasks[i])
    \/ call.has_key /\ tasks[i] = NeutralDefault

Analyzed == pc = "returned" /\ call.has_reviews

\* C15: for every batch and every completion order of the classification
\* calls, analyzed_reviews is as long as the input and analyzed_reviews[i]
\* carries the sentiment obtained for input review i.
C15_AlignedWithInput ==
    Analyzed =>
       /\ Len(last_result.analyzed_reviews) = Len(call.reviews)
       /\ \A i \in 1..Len(last_result.analyzed_reviews) :
              /\ last_result.analyzed_reviews[i].review = call.reviews[i]
              /\ last_result.analyzed_reviews[i].sentiment = Obtained(i)

\* C16: a classification failure of a review does not abort the batch:
\* execute returns success with that review labelled NEUTRAL with score 0.5
\* and every other review's sentiment intact, with and without theme
\* extraction.
C16_FailureKeepsBatch ==
    (Analyzed /\ \E i \in 1..Len(call.reviews) : ClassificationFailed(i)) =>
       /\ last_result.success
       /\ Len(last_result.analyzed_reviews) = Len(call.reviews)
       /\ \A i \in 1..Len(last_result.analyzed_reviews) :
              IF ClassificationFailed(i)
              THEN last_result.analyzed_reviews[i].sentiment = NeutralDefault
              ELSE last_result.analyzed_reviews[i].sentiment = tasks[i]

(***************************************************************************)
(* Claims about the score of a candidate over budget (SpecScore).          *)
(***************************************************************************)
Scored == last_result # <<>> /\ ~last_result.raised

OverBudget ==
    /\ call.price_data # Absent
    /\ call.prefs.budget # None
    /\ call.price_data.total_cost > call.prefs.budget

OtherTerms ==
    SentimentTerm(call.review_data) + RatingTerm(call.product)
        + ReviewCountTerm(call.product)

\* C19: with price data whose total_cost is above the budget, the score is
\* the sentiment, rating and review-volume terms less 0.2, clamped to
\* [0, 1], with no budget bonus; it never exceeds the score of the same
\* candidate scored with no price data.
C19_OverBudgetPenalised ==
    (Scored /\ OverBudget) =>
       /\ last_result.score =
              Max(0, Min(SCALE, OtherTerms - (2 * SCALE) \div 10))
       /\ last_result.score <=
              CalculateProductScore(call.product, Absent, call.review_data,
                                    call.prefs)

\* A candidate over budget with reviews: the penalty has been subtracted
\* from a positive sum, and the score stays below the score without price
\* data.
C19_Witness ==
    /\ Scored
    /\ OverBudget
    /\ call.review_data # Absent
    /\ last_result.score > 0
    /\ last_result.score = OtherTerms - (2 * SCALE) \div 10
    /\ last_result.score <
           CalculateProductScore(call.product, Absent, call.review_data,
                                 call.prefs)

(***************************************************************************)
(* RecommendationEngineAgent.execute on its own: candidate lists with      *)
(* repeated and equally scored products, long enough for the default       *)
(* max_recommendations to cut them.                                        *)
(***************************************************************************)
MaxCandidates == 6

\* A second offer with the rating and review count of A2.
TwinProduct == Prod("A4", "Amazon", 21, 40, 999)

CandidatePool ==
    {p \in Catalogue : p.product_id \in {"A2", "A3"}} \cup {TwinProduct}

CandidateLists == SeqsUpTo(CandidatePool, MaxCandidates)

\* price_comparisons: none, or a quote for the low-rated A3.
CandidatePrices == {<<>>, "A3" :> [total_cost |-> 19]}

RecommendCalls ==
    [products : CandidateLists,
     price_comparisons : CandidatePrices,
     user_preferences : {Prefs(None, None, r, None) : r \in {None, 40}},
     max_recommendations : {None, 2}]

\* query.get("max_recommendations", 5)
QueryMaxRecommendations(query) ==
    IF query.max_recommendations = None THEN DefaultMaxRecommendations
    ELSE query.max_recommendations

RecommendInit ==
    /\ call \in RecommendCalls
    /\ price_history = <<>>
    /\ now = 0
    /\ tasks = [k \in TaskIds |-> IdleTask]
    /\ last_result = <<>>
    /\ NoWorkflow

ApplyRecommend ==
    /\ last_result = <<>>
    /\ last_result' =
          RecommendationExecute(TRUE, call.products, call.price_comparisons,
                                <<>>, call.user_preferences,
                                QueryMaxRecommendations(call))
    /\ UNCHANGED <<price_history, now, tasks, call, workflow_vars>>

RecommendNext == ApplyRecommend

SpecRecommend == RecommendInit /\ [][RecommendNext]_vars

Recommended == last_result # <<>> /\ last_result.success

\* C17: no product whose rating is below min_rating (default 0) appears in
\* the recommendations, whatever its price, sentiment or score.
C17_NoneBelowMinRating ==
    Recommended =>
       LET min_rating == IF call.user_preferences.min_rating = None THEN 0
                         ELSE call.user_preferences.min_rating
       IN  \A i \in 1..Len(last_result.recommendations) :
               last_result.recommendations[i].product.rating >= min_rating

\* The score each product of the call gets, in input order.
CandidateScore(i) ==
    RoundScore(CalculateProductScore(call.products[i],
                                     Get(call.price_comparisons,
                                         call.products[i].product_id),
                                     Absent, call.user_preferences))

\* A product rated 3.5 with min_rating 4.0 has the highest score of the
\* call and is left out of non-empty recommendations.
C17_Witness ==
    /\ Recommended
    /\ call.user_preferences.min_rating = 40
    /\ last_result.recommendations # <<>>
    /\ \E i \in 1..Len(call.products) :
          /\ call.products[i].rating = 35
          /\ \A j \in 1..Len(call.products) :
                 call.products[j].rating # 35 =>
                     CandidateScore(i) > CandidateScore(j)

\* The positions of the call's products that pass the rating filter.
Eligible ==
    {i \in 1..Len(call.products) :
        call.products[i].rating >=
            (IF call.user_preferences.min_rating = None THEN 0
             ELSE call.user_preferences.min_rating)}

\* The place of eligible product i in a descending order that keeps the
\* input order among equal scores.
RankOf(i) ==
    1 + Cardinality({j \in Eligible :
                        \/ CandidateScore(j) > CandidateScore(i)
                        \/ CandidateScore(j) = CandidateScore(i) /\ j < i})

\* C18: the recommendations are sorted by score in descending order,
\* candidates of equal score keep their relative order from the input
\* product list, and the list holds the top max_recommendations (default 5)
\* candidates at most.
C18_RankedStableTruncated ==
    Recommended =>
       LET recs == last_result.recommendations
           cut == IF call.max_recommendations = None THEN 5
                  ELSE call.max_recommendations
       IN  /\ Len(recs) = Min(cut, Cardinality(Eligible))
           /\ \A i \in 1..Len(recs), j \in 1..Len(recs) :
                  i < j => recs[i].score >= recs[j].score
           /\ \A i \in Eligible :
                  RankOf(i) <= cut =>
                     /\ recs[RankOf(i)].product = call.products[i]
                     /\ recs[RankOf(i)].score = CandidateScore(i)

\* Six candidates pass the filter, the default of five cuts the list, two
\* different products of equal score are both returned, and the order of
\* the input was not the order of the scores.
C18_Witness ==
    /\ Recommended
    /\ call.max_recommendations = None
    /\ Cardinality(Eligible) = 6
    /\ Len(last_result.recommendations) = 5
    /\ \E i \in 1..5, j \in 1..5 :
          /\ i < j
          /\ last_result.recommendations[i].score =
                 last_result.recommendations[j].score
          /\ last_result.recommendations[i].product #
                 last_result.recommendations[j].product
    /\ \E i \in 1..5 : CandidateScore(i) < CandidateScore(i + 1)

\* The price of a recommendation: the total_cost of its price_data when
\* present, else the price of the product (the products of the model ship
\* free, so that price is total_price).
PriceOf(recommendation) ==
    IF recommendation.price_data # Absent
    THEN recommendation.price_data.total_cost
    ELSE recommendation.product.total_price

\* C20: in a successful run of the pipeline with a budget in
\* user_preferences, no returned recommendation has a price above the
\* budget.
C20_NoRecommendationOverBudget ==
    (/\ pc = "returned"
     /\ call.entry = "execute_workflow"
     /\ ~IsException(last_result)
     /\ last_result.success
     /\ call.user_preferences.budget # None) =>
        \A i \in 1..Len(last_result.recommendations) :
            PriceOf(last_result.recommendations[i]) <=
                call.user_preferences.budget

(***************************************************************************)
(* Claims about the score of a candidate within budget (SpecScore).        *)
(***************************************************************************)
InBudget ==
    /\ call.price_data # Absent
    /\ \/ call.prefs.budget = None
       \/ call.price_data.total_cost <= call.prefs.budget

\* C24: with price data whose total_cost is within the budget, the score is
\* the sum of the price, sentiment, rating and review-volume terms times
\* (1 + budget_weight), clamped to [0, 1]: the bonus multiplies the whole
\* sum once; in no other case is a bonus applied.
C24_BonusOnWholeSum ==
    Scored =>
       LET price_term ==
               IF call.price_data = Absent THEN 0
               ELSE IF InBudget
               THEN (3 * PriceScore(call.price_data.total_cost, call.prefs))
                        \div 10
               ELSE 0 - (2 * SCALE) \div 10
           sum == price_term + OtherTerms
       IN  IF InBudget
           THEN last_result.score = Max(0, Min(SCALE, (sum * 15) \div 10))
           ELSE last_result.score = Max(0, Min(SCALE, sum))

\* A candidate within budget with reviews and a rating: the bonus has
\* raised the whole sum and the clamp has not acted.
C24_Witness ==
    /\ Scored
    /\ InBudget
    /\ call.prefs.budget # None
    /\ call.review_data # Absent
    /\ call.product.rating > 0
    /\ last_result.score < SCALE
    /\ last_result.score > OtherTerms + (OtherTerms \div 2)
    /\ last_result.score >
           PriceTerm(call.price_data, call.prefs) + OtherTerms

\* The score of the call's candidate with its price data replaced.
ScoreWithCost(total_cost) ==
    CalculateProductScore(call.product, [total_cost |-> total_cost],
                          call.review_data, call.prefs)

CostsOfCalls ==
    {c.price_data.total_cost : c \in {d \in ScoreCalls : d.price_data # Absent}}

\* C30: for every product, review data and preferences (a max_price
\* included), price data within budget never scores lower than over-budget
\* price data for the otherwise same candidate, and of two within-budget
\* candidates that differ in total_cost only the cheaper never scores lower.
C30_WithinBudgetNeverWorse ==
    (Scored /\ InBudget /\ call.prefs.budget # None) =>
       \A other \in CostsOfCalls :
          /\ other > call.prefs.budget =>
                last_result.score >= ScoreWithCost(other)
          /\ call.price_data.total_cost <= other /\ other <= call.prefs.budget
                => last_result.score >= ScoreWithCost(other)

\* C27: in every successful review analysis the positive, negative and
\* neutral counts add up to total_reviews, which is the number of input
\* reviews, whatever each classification call returned.
C27_CountsAddUp ==
    (Analyzed /\ last_result.success) =>
       /\ last_result.sentiment_summary.total_reviews = Len(call.reviews)
       /\ last_result.sentiment_summary.positive_count
             + last_result.sentiment_summary.negative_count
             + last_result.sentiment_summary.neutral_count
          = last_result.sentiment_summary.total_reviews

\* C28: with the keyword analyser (no classifier configured) every
\* per-review score is at least 0.5, so average_sentiment_score is at least
\* 0.5 and overall_sentiment is never NEGATIVE, also when every review of
\* the batch is labelled NEGATIVE.
C28_KeywordNeverNegative ==
    (Analyzed /\ last_result.success /\ ~call.has_key) =>
       /\ \A i \in 1..Len(last_result.analyzed_reviews) :
              last_result.analyzed_reviews[i].sentiment.score >= 500
       /\ last_result.sentiment_summary.average_sentiment_score >= 500
       /\ last_result.sentiment_summary.overall_sentiment # "NEGATIVE"

\* A batch of two reviews, both labelled NEGATIVE by the keyword analyser,
\* whose overall sentiment is POSITIVE.
C28_Witness ==
    /\ Analyzed
    /\ last_result.success
    /\ ~call.has_key
    /\ Len(call.reviews) = 2
    /\ last_result.sentiment_summary.negative_count = 2
    /\ last_result.sentiment_summary.average_sentiment_score = 900
    /\ last_result.sentiment_summary.overall_sentiment = "POSITIVE"

(***************************************************************************)
(* One call of ReviewAnalysisAgent._analyze_sentiment, request by request. *)
(* pc is "call" at the entry of the function, "awaiting" while a request   *)
(* is in flight, "sleeping" in asyncio.sleep(2) after a 503, "returned"    *)
(* at the end; locals.requests counts the requests issued.  On a 503 the   *)
(* function calls itself; the model stops issuing requests at MaxRequests. *)
(***************************************************************************)
MaxRequests == 4

ClassifyResponses ==
    ApiResponses \cup {ListResponse("negative"), ListResponse("neutral"),
                       LoadingResponse}

ClassifyCalls ==
    [review : {PositiveReview, NegativeReview, TextNone}, has_key : BOOLEAN]

ClassifyInit ==
    /\ call \in ClassifyCalls
    /\ pc = "call"
    /\ locals = [requests |-> 0]
    /\ last_result = <<>>
    /\ price_history = <<>>
    /\ now = 0
    /\ tasks = <<>>
    /\ workflow_result = <<>>
    /\ log = <<>>

\* Lines 42-68: no key, the keyword analyser answers.
KeywordAnalysis ==
    /\ pc = "call"
    /\ ~call.has_key
    /\ last_result' = AnalyzeSentimentCall(FALSE, call.review,
                                           FailedResponse)
    /\ pc' = "returned"
    /\ UNCHANGED <<price_history, now, tasks, call, locals, workflow_result,
                   log>>

\* Lines 71-85: the request is posted.
SendRequest ==
    /\ pc = "call"
    /\ call.has_key
    /\ locals.requests < MaxRequests
    /\ locals' = [locals EXCEPT !.requests = @ + 1]
    /\ pc' = "awaiting"
    /\ UNCHANGED <<price_history, now, tasks, call, last_result,
                   workflow_result, log>>

\* Lines 86-115: the response arrives.  A 503 leads to the sleep, any other
\* response to the return.
Respond ==
    /\ pc = "awaiting"
    /\ \E response \in ClassifyResponses :
          IF response = LoadingResponse
          THEN /\ pc' = "sleeping"
               /\ UNCHANGED last_result
          ELSE /\ pc' = "returned"
               /\ last_result' = ResponseResult(response)
    /\ UNCHANGED <<price_history, now, tasks, call, locals, workflow_result,
                   log>>

\* Lines 103-104: after the sleep the function calls itself and returns
\* what that call returns.
RetryAfterSleep ==
    /\ pc = "sleeping"
    /\ pc' = "call"
    /\ UNCHANGED <<price_history, now, tasks, call, last_result, locals,
                   workflow_result, log>>

ClassifyNext ==
    \/ KeywordAnalysis
    \/ SendRequest
    \/ Respond
    \/ RetryAfterSleep

SpecClassify == ClassifyInit /\ [][ClassifyNext]_vars

\* C23: a classification call answered with 503 is retried at most once:
\* one call issues at most two requests, also when the service answers 503
\* every time.
C23_AtMostTwoRequests == locals.requests <= 2

(***************************************************************************)
(* ProductSearchAgent.execute with its platform searches in flight.  A     *)
(* task is started for every platform execute decides to search; tasks[p]  *)
(* is what the adapter of platform p did.  An adapter answers with         *)
(* products ("responded"), it returns [] because its credentials are       *)
(* missing ("skipped") or because the request failed or timed out          *)
(* ("failed"), or it raises ("raised": the mock adapter on filters it      *)
(* cannot compare).                                                        *)
(***************************************************************************)
Platforms == <<"ebay", "amazon">>

PlatformStock ==
    [ebay |-> <<Prod("E1", "eBay", 0, None, None)>>,
     amazon |-> <<Prod("A1", "Amazon", 20, 46, 99)>>]

SearchCalls ==
    [has_search_term : BOOLEAN,
     platforms : SUBSET Range(Platforms),
     ebay_app_id : BOOLEAN,
     amazon_keys : BOOLEAN,
     use_amazon_mock : BOOLEAN]

\* Lines 524-541: the platforms a task is created for; each is appended to
\* platforms_searched at the same time.
Started(query) ==
    SelectSeq(Platforms,
              LAMBDA p :
                 /\ p \in query.platforms
                 /\ p = "amazon" =>
                       query.amazon_keys \/ query.use_amazon_mock)

\* What the adapter of a platform can do.
AdapterOutcomes(query, p) ==
    IF p = "ebay"
    THEN IF query.ebay_app_id THEN {"responded", "failed"}
         ELSE {"skipped"}
    ELSE IF query.amazon_keys THEN {"responded", "failed"}
         ELSE {"responded", "raised"}

\* What gather holds for a platform: the list the adapter returned, or the
\* exception it raised.
TaskResult(p, outcome) ==
    IF outcome = "raised" THEN [outcome |-> outcome, exception |-> "TypeError"]
    ELSE [outcome |-> outcome,
          products |-> IF outcome = "responded" THEN PlatformStock[p]
                       ELSE <<>>]

\* Lines 547-551: the lists of the tasks that did not raise, in task order.
RECURSIVE Collect(_, _)
Collect(started, results) ==
    IF started = <<>> THEN <<>>
    ELSE LET first == results[Head(started)]
         IN  (IF IsException(first) THEN <<>> ELSE first.products)
                \o Collect(Tail(started), results)

\* execute, from the results of the gathered tasks on.
SearchPlatformsExecute(has_term, term, started, results) ==
    IF ~has_term
    THEN [success |-> FALSE,
          error |-> "Missing required field: search_term",
          products |-> <<>>, total_results |-> 0,
          platforms_searched |-> <<>>]
    ELSE LET products == Collect(started, results)
         IN  [success |-> TRUE, products |-> products,
              total_results |-> Len(products),
              platforms_searched |-> started,
              search_term |-> term]

SearchInit ==
    /\ call \in SearchCalls
    /\ tasks = [p \in Range(Started(call)) |-> [outcome |-> "pending"]]
    /\ pc = "gather"
    /\ last_result = <<>>
    /\ price_history = <<>>
    /\ now = 0
    /\ locals = <<>>
    /\ workflow_result = <<>>
    /\ log = <<>>

\* The adapter of one platform finishes.
AdapterFinishes(p) ==
    /\ pc = "gather"
    /\ call.has_search_term
    /\ p \in DOMAIN tasks
    /\ tasks[p].outcome = "pending"
    /\ \E outcome \in AdapterOutcomes(call, p) :
          tasks' = [tasks EXCEPT ![p] = TaskResult(p, outcome)]
    /\ UNCHANGED <<price_history, now, call, last_result, pc, locals,
                   workflow_result, log>>

\* gather returns when every adapter has finished; execute returns.
SearchReturn ==
    /\ pc = "gather"
    /\ \/ ~call.has_search_term
       \/ \A p \in DOMAIN tasks : tasks[p].outcome # "pending"
    /\ last_result' =
          SearchPlatformsExecute(call.has_search_term, "laptop",
                                 Started(call), tasks)
    /\ pc' = "returned"
    /\ UNCHANGED <<price_history, now, tasks, call, locals, workflow_result,
                   log>>

SearchNext ==
    \/ \E p \in Range(Platforms) : AdapterFinishes(p)
    \/ SearchReturn

SpecSearch == SearchInit /\ [][SearchNext]_vars

Searched == pc = "returned" /\ call.has_search_term

\* C22: platforms_searched lists exactly the platforms that responded: a
\* platform whose adapter raised, timed out or was skipped for lack of
\* credentials is not reported, and the products of the other platforms
\* are returned.
C22_ReportsRespondingPlatforms ==
    Searched =>
       /\ Range(last_result.platforms_searched) =
              {p \in DOMAIN tasks : tasks[p].outcome = "responded"}
       /\ \A p \in DOMAIN tasks :
              tasks[p].outcome = "responded" =>
                 \A i \in 1..Len(PlatformStock[p]) :
                    PlatformStock[p][i] \in Range(last_result.products)

(***************************************************************************)
(* Claims about the order of the stages of a run (Spec).                   *)
(***************************************************************************)
BothStagesEnabled ==
    /\ call # <<>>
    /\ call.entry = "execute_workflow"
    /\ call.include_price_comparison
    /\ call.include_review_analysis

\* C21: after a successful search with both stages enabled, price
\* aggregation and review aggregation run concurrently: while the price
\* stage has not completed the review stage can start (neither waits for
\* the other), and scoring starts only after both have finished.
C21_PriceAndReviewConcurrent ==
    /\ (BothStagesEnabled /\ pc = "price") => ENABLED ReviewStage
    /\ (BothStagesEnabled /\ pc = "score") =>
          /\ "price_comparison" \in DOMAIN workflow_result.workflow_steps
          /\ "review_analysis" \in DOMAIN workflow_result.workflow_steps

\* The search of the run returned a product whose rating or review_count
\* is None.
SignalAbsent ==
    /\ SearchFound
    /\ \E i \in 1..Len(locals.products) :
          \/ locals.products[i].rating = None
          \/ locals.products[i].review_count = None

\* C26: a product whose rating or review_count is None is handled by the
\* pipeline: review synthesis and scoring complete and the run does not
\* fail because of it.
C26_AbsentSignalsHandled ==
    (RunOver /\ SignalAbsent) =>
       /\ workflow_result.success
       /\ "recommendation" \in DOMAIN workflow_result.workflow_steps
       /\ workflow_result.workflow_steps["recommendation"].success


(***************************************************************************)
(* The price map the run hands to the scoring stage.                       *)
(***************************************************************************)
SearchRetailers == {locals.products[i].retailer : i \in 1..Len(locals.products)}

ProductsOfRetailer(r) == SelectSeq(locals.products, LAMBDA p : p.retailer = r)

\* The product of retailer r with the lowest total cost, the first of them
\* on a tie.
CheapestProduct(r) ==
    LET own == ProductsOfRetailer(r)
    IN  own[CHOOSE i \in 1..Len(own) :
               /\ \A j \in 1..Len(own) : own[i].total_price <= own[j].total_price
               /\ \A j \in 1..(i - 1) : own[j].total_price > own[i].total_price]

PriceStageRan ==
    /\ call # <<>>
    /\ call.entry = "execute_workflow"
    /\ call.include_price_comparison
    /\ pc \in {"review", "score", "done"}
    /\ "price_comparison" \in DOMAIN workflow_result.workflow_steps

\* C29: in a pipeline run the price map handed to SCORE has at most one
\* entry per retailer, each keyed by the product_id of the lowest-total_cost
\* product of that retailer in the search results, so the map has no more
\* entries than the search results have distinct retailers and every other
\* product is scored without price data.
C29_OnePriceEntryPerRetailer ==
    PriceStageRan =>
       /\ \A k \in DOMAIN locals.price_comparisons :
             /\ locals.price_comparisons[k].retailer \in SearchRetailers
             /\ k = CheapestProduct(locals.price_comparisons[k].retailer).product_id
       /\ \A k1, k2 \in DOMAIN locals.price_comparisons :
             (locals.price_comparisons[k1].retailer =
                 locals.price_comparisons[k2].retailer) => k1 = k2
       /\ Cardinality(DOMAIN locals.price_comparisons)
             <= Cardinality(SearchRetailers)


(***************************************************************************)
(* The price history under every operation that reaches it: the entry      *)
(* points of the workflow manager, and the trend calculator and the        *)
(* aggregator of its comparison agent called on their own.                 *)
(***************************************************************************)
StoreQueries ==
    [has_name : BOOLEAN, products : ProductLists, ext : ExternalQuoteLists,
     incl : BOOLEAN, fault : BOOLEAN]

\* comparison_agent._calculate_price_trend(product_name, retailer)
TrendQuery ==
    /\ pc = "idle"
    /\ last_result = <<>>
    /\ \E name \in {SearchTerm, "phone"}, retailer \in {"Amazon", "eBay"} :
          /\ last_result' = CalculatePriceTrend(price_history, name, retailer)
          /\ call' = [entry |-> "_calculate_price_trend", name |-> name,
                      retailer |-> retailer]
    /\ UNCHANGED <<price_history, now, tasks, workflow_vars>>

\* comparison_agent.execute(query)
AggregateQuery ==
    /\ pc = "idle"
    /\ last_result = <<>>
    /\ \E q \in StoreQueries :
          \E out \in {ComparisonExecute(price_history, now, q.has_name,
                          SearchTerm, q.products, q.ext, q.incl, q.fault)} :
             /\ last_result' = out.result
             /\ price_history' = out.hist
    /\ call' = [entry |-> "comparison_agent.execute"]
    /\ UNCHANGED <<now, tasks, workflow_vars>>

StoreNext == Next \/ TrendQuery \/ AggregateQuery

SpecStore == Init /\ [][StoreNext]_vars

\* The step completes an aggregation that reports success: the price stage
\* of a run, or a call of the aggregator.
AggregationSucceeds ==
    \/ /\ pc = "price"
       /\ call.include_price_comparison
       /\ workflow_result'.workflow_steps["price_comparison"].success
    \/ /\ pc = "idle"
       /\ call'.entry \in {"compare_prices_only", "comparison_agent.execute"}
       /\ last_result'.success

PriceStageDisabled == pc = "price" /\ ~call.include_price_comparison

\* C25: the price history is changed only by an aggregation that succeeds;
\* a trend query, an aggregation that fails validation or finds no price
\* data, and a run with price comparison disabled leave every series as it
\* was, and such a run records the stage as skipped and hands an empty
\* price map to the scoring stage.
C25_OnlySuccessChangesStore ==
    [][/\ (price_history' # price_history) => AggregationSucceeds
       /\ PriceStageDisabled =>
             /\ price_history' = price_history
             /\ workflow_result'.workflow_steps["price_comparison"] = Skipped
             /\ locals'.price_comparisons = <<>>
       /\ (pc = "score" /\ ~call.include_price_comparison) =>
             locals.price_comparisons = <<>>]_vars

\* An aggregation that found no price data has returned on a store that
\* holds a series.
C25_Witness ==
    /\ call # <<>>
    /\ call.entry = "comparison_agent.execute"
    /\ last_result # <<>>
    /\ ~last_result.success
    /\ last_result.error = "No price data available"
    /\ price_history # <<>>

=============================================================================
